---- MODULE Spec2Model ----
(***************************************************************************)
(* foxwaf: the Coraza middleware of the fox router.                        *)
(*                                                                         *)
(* The model follows one goroutine serving requests one after the other    *)
(* through WAF.Intercept (src/coraza.go) with the response interceptor     *)
(* rwInterceptor (src/writer.go).  The Coraza transaction and the          *)
(* underlying fox.ResponseWriter are collaborators outside the             *)
(* repository: the transaction's answers are chosen nondeterministically   *)
(* at each call, and every call the middleware makes on either of them is  *)
(* appended to log, the observable trace of one request.  Requests are     *)
(* named relative to the one being served: "cur" is this request's writer, *)
(* transaction or protocol, "old" that of an earlier request.              *)
(* The underlying writer takes every byte it is given; a call on an        *)
(* interrupted transaction returns its standing interruption.              *)
(***************************************************************************)
EXTENDS Integers, Sequences, FiniteSets, TLC

VARIABLES
    pc,     \* position of the goroutine in WAF.Intercept
    ops,    \* calls the downstream handler has made on its writer
    exit,   \* the path on which Intercept is leaving ("" while running)
    tx,     \* the types.Transaction of the request
    i,      \* the *rwInterceptor last taken from the pool
    pool,   \* content of the sync.Pool p
    hdr,    \* header map of the underlying writer, c.Writer().Header()
    log,    \* calls received by tx and by the underlying writer, in order
    req     \* the *http.Request: header, Host, TransferEncoding, Body

vars == <<pc, ops, exit, tx, i, pool, hdr, log, req>>

----------------------------------------------------------------------------
\* Bounds of the model.
MaxOps == 2     \* handler calls on the writer per request

\* Program constants.
notWritten == -1
StatusOK == 200
StatusInternalServerError == 500
StatusForbidden == 403

\* Input alphabets.  The code never looks into body bytes, only at lengths.
HandlerStatus == {201, 404}
Chunks == {<<>>, <<1>>, <<2, 3>>}
Sources == {<<>>, <<<<1>>>>, <<<<2, 3>>, <<1>>>>}
HeaderNames == {"Content-Length", "Content-Type"}
HandlerHeaders == {<<"Content-Type", "text/plain">>, <<"Content-Length", "5">>}

\* types.Interruption: the verdict of a phase; NoIt is the nil pointer.
NoIt == [action |-> "", status |-> 0]
Its == {[action |-> "deny", status |-> 0],
        [action |-> "deny", status |-> 503],
        [action |-> "redirect", status |-> 302]}
ItOrNil == Its \cup {NoIt}

NoHdr == [k \in HeaderNames |-> ""]

\* One entry of the trace: a call on the interceptor ("i."), on the
\* transaction ("tx."), on the underlying writer ("w.") or of the handler
\* ("next").  a is a status code, b body bytes, h the writer's header map
\* when the call is made, by the caller and it the interruption a call on
\* the transaction returned.
Ev(op, a, b, h, by) ==
    [op |-> op, a |-> a, b |-> b, h |-> h, by |-> by, it |-> NoIt]
TxEv(op, a, b, it) ==
    [op |-> op, a |-> a, b |-> b, h |-> NoHdr, by |-> "mw", it |-> it]

\* The zero value &rwInterceptor{} made by the pool's New.
ZeroInterceptor ==
    [w |-> "nil", tx |-> "nil", proto |-> "", statusCode |-> 0, size |-> 0,
     isWriteHeaderFlush |-> FALSE, wroteHeader |-> FALSE]

\* The transaction returned by newTX.  inspect stands for
\* IsResponseBodyAccessible() && IsResponseBodyProcessable(), reqAccess
\* for IsRequestBodyAccessible(); reqLimit is the request body limit of
\* the engine and reqBuf the request body it has buffered.
NewTX(off, inspect) ==
    [off |-> off, interruption |-> NoIt, respHeadersDone |-> FALSE,
     inspect |-> inspect, respBuf |-> <<>>,
     reqAccess |-> FALSE, reqLimit |-> 0, reqBuf |-> <<>>]

\* req.Body: nil, http.NoBody, the stream of the connection with the
\* bytes not read yet in rest, or, once processRequest has replaced it,
\* the io.MultiReader of a reader on the bytes in buf and of the stream.
NilBody == [kind |-> "nil", buf |-> <<>>, rest |-> <<>>]
NoBody == [kind |-> "NoBody", buf |-> <<>>, rest |-> <<>>]
Stream(b) == [kind |-> "stream", buf |-> <<>>, rest |-> b]

\* The requests and body limits of the middleware's runs.  Header holds
\* the header fields in the order the range over the map yields them.
ReqHeaders == {<<>>, <<"Accept">>, <<"Accept", "Cookie">>, <<"Cookie", "Accept">>}
ReqBodies == {NilBody, NoBody, Stream(<<>>), Stream(<<1>>), Stream(<<1, 2>>),
              Stream(<<1, 2, 3>>)}
AllReqs == [Header : ReqHeaders, Host : {"", "h"},
            TransferEncoding : {<<>>, <<"chunked">>}, Body : ReqBodies]
AllLimits == {1, 2}
Reqs == {[Header |-> <<"Accept">>, Host |-> "h", TransferEncoding |-> <<>>,
          Body |-> Stream(<<1, 2>>)]}
Limits == {2}

\* The part of the state the interceptor's methods work on, with the
\* values the last call returned: it (interruption), n (bytes), err.
St == [i |-> i, tx |-> tx, hdr |-> hdr, log |-> log, req |-> req,
       it |-> NoIt, n |-> 0, err |-> FALSE]

----------------------------------------------------------------------------
\* The transaction, as the middleware sees it.

\* tx.IsInterrupted()
IsInterrupted(s) == s.tx.interruption # NoIt

\* tx.AddResponseHeader for every header staged on the writer.
AddResponseHeaders(s) ==
    IF s.hdr = NoHdr THEN s
    ELSE [s EXCEPT !.log = Append(@, Ev("tx.AddResponseHeader", 0, <<>>, s.hdr, "mw"))]

\* A call of a method of the interceptor, by the handler or by the
\* interceptor itself, enters the trace.
Called(s, op, a, b, by) == [s EXCEPT !.log = Append(@, Ev(op, a, b, s.hdr, by))]

\* tx.ProcessResponseHeaders: evaluated once; a later call, or a call on an
\* interrupted transaction, returns the standing interruption.  hv is the
\* engine's answer when the phase is evaluated: its verdict and whether the
\* response body is to be inspected given the response headers.
ProcessResponseHeaders(s, code, hv) ==
    LET again == s.tx.respHeadersDone \/ IsInterrupted(s)
        it == IF again THEN s.tx.interruption ELSE hv.it
        s1 == [s EXCEPT !.log = Append(@, TxEv("tx.ProcessResponseHeaders", code, <<>>, it)),
                        !.it = it]
    IN IF again THEN s1
       ELSE [s1 EXCEPT !.tx.respHeadersDone = TRUE,
                       !.tx.interruption = hv.it,
                       !.tx.inspect = hv.inspect]

\* tx.WriteResponseBody: wv is the engine's answer: its verdict and the
\* number of bytes it took into its buffer.
WriteResponseBody(s, b, wv) ==
    LET it == IF IsInterrupted(s)
              THEN (IF wv.it = NoIt THEN NoIt ELSE s.tx.interruption)
              ELSE wv.it
        k  == IF IsInterrupted(s) \/ it # NoIt THEN 0
              ELSE IF wv.n < Len(b) THEN wv.n ELSE Len(b)
        s1 == [s EXCEPT !.log = Append(@, TxEv("tx.WriteResponseBody", 0, b, it)),
                        !.it = it, !.n = k]
    IN IF IsInterrupted(s) THEN s1
       ELSE IF it # NoIt THEN [s1 EXCEPT !.tx.interruption = it]
       ELSE [s1 EXCEPT !.tx.respBuf = @ \o SubSeq(b, 1, k)]

\* tx.ProcessResponseBody: pv is the engine's answer (verdict or failure).
ProcessResponseBody(s, pv) ==
    IF pv.err
    THEN [s EXCEPT !.log = Append(@, TxEv("tx.ProcessResponseBody", 0, <<>>, NoIt)),
                   !.it = NoIt, !.err = TRUE]
    ELSE [s EXCEPT !.log = Append(@, TxEv("tx.ProcessResponseBody", 0, <<>>, pv.it)),
                   !.tx.interruption = pv.it, !.it = pv.it, !.err = FALSE]

\* tx.ResponseBodyReader
ResponseBodyReader(s, pv) ==
    [s EXCEPT !.log = Append(@, TxEv("tx.ResponseBodyReader", 0, <<>>, NoIt)),
              !.err = pv.readerErr]

----------------------------------------------------------------------------
\* src/coraza.go and src/writer.go.

\* Mutant: the action of the interruption is not looked at.
obtainStatusAnyAction(it, defaultStatusCode) ==
    IF it.status = 0 THEN StatusForbidden ELSE it.status

\* Mutant: the 403 default of a "deny" without status is forgotten.
obtainStatusNoDefault(it, defaultStatusCode) ==
    IF it.action = "deny" THEN it.status ELSE defaultStatusCode

obtainStatusCodeFromInterruptionOrDefault(it, defaultStatusCode) ==
    IF it.action = "deny"
    THEN (IF it.status = 0 THEN StatusForbidden ELSE it.status)
    ELSE defaultStatusCode

\* Mutant: reset forgets the flushed flag.
resetKeepsFlush(w, t, writer, proto) ==
    [w EXCEPT !.w = writer, !.tx = t, !.statusCode = StatusOK, !.proto = proto,
              !.size = notWritten, !.wroteHeader = FALSE]

reset(w, t, writer, proto) ==
    [w EXCEPT !.w = writer, !.tx = t, !.statusCode = StatusOK, !.proto = proto,
              !.size = notWritten, !.isWriteHeaderFlush = FALSE,
              !.wroteHeader = FALSE]

Status(w) == w.statusCode

Written(w) == w.size # notWritten

Size(w) == IF w.size < 0 THEN 0 ELSE w.size

\* Mutant: the recorded status is not overridden.
overrideWriteHeaderKeeps(s, statusCode) == s

overrideWriteHeader(s, statusCode) ==
    [s EXCEPT !.i.statusCode = statusCode, !.i.size = 0]

\* Mutant: the flush does not set isWriteHeaderFlush.
flushWriteHeaderUnmarked(s) ==
    IF ~s.i.isWriteHeaderFlush
    THEN [s EXCEPT !.log = Append(@, Ev("w.WriteHeader", s.i.statusCode, <<>>, s.hdr, "mw"))]
    ELSE s

\* Mutant: the flush does not look at isWriteHeaderFlush.
flushWriteHeaderAgain(s) ==
    [s EXCEPT !.log = Append(@, Ev("w.WriteHeader", s.i.statusCode, <<>>, s.hdr, "mw")),
              !.i.isWriteHeaderFlush = TRUE]

flushWriteHeader(s) ==
    IF ~s.i.isWriteHeaderFlush
    THEN [s EXCEPT !.log = Append(@, Ev("w.WriteHeader", s.i.statusCode, <<>>, s.hdr, "mw")),
                   !.i.isWriteHeaderFlush = TRUE]
    ELSE s

\* Mutant: the staged headers are left in place.
cleanHeadersKeeps(s) == s

cleanHeaders(s) ==
    IF s.hdr = NoHdr THEN s
    ELSE [s EXCEPT !.hdr = NoHdr,
                   !.log = Append(@, Ev("w.Header.Del", 0, <<>>, NoHdr, "mw"))]

\* w.Header().Set(k, v) by the middleware
HeaderSet(s, k, v) ==
    LET h == [s.hdr EXCEPT ![k] = v]
    IN [s EXCEPT !.hdr = h, !.log = Append(@, Ev("w.Header.Set", 0, <<>>, h, "mw"))]

\* Mutant: a superfluous WriteHeader is not ignored.
WriteHeaderNoGuard(s0, statusCode, hv, by) ==
    LET s  == Called(s0, "i.WriteHeader", statusCode, <<>>, by)
        s1 == AddResponseHeaders(s)
        s2 == [s1 EXCEPT !.i.statusCode = statusCode, !.i.size = 0]
        s3 == ProcessResponseHeaders(s2, statusCode, hv)
    IN IF s3.it # NoIt
       THEN LET s4 == HeaderSet(cleanHeaders(s3), "Content-Length", "0")
                s5 == [s4 EXCEPT !.i.statusCode =
                         obtainStatusCodeFromInterruptionOrDefault(s3.it, s4.i.statusCode)]
            IN flushWriteHeader(s5)
       ELSE [s3 EXCEPT !.i.wroteHeader = TRUE]

WriteHeader(s0, statusCode, hv, by) ==
    LET s == Called(s0, "i.WriteHeader", statusCode, <<>>, by)
    IN
    IF s.i.wroteHeader THEN s
    ELSE LET s1 == AddResponseHeaders(s)
             s2 == [s1 EXCEPT !.i.statusCode = statusCode, !.i.size = 0]
             s3 == ProcessResponseHeaders(s2, statusCode, hv)
         IN IF s3.it # NoIt
            THEN LET s4 == HeaderSet(cleanHeaders(s3), "Content-Length", "0")
                     s5 == [s4 EXCEPT !.i.statusCode =
                              obtainStatusCodeFromInterruptionOrDefault(s3.it, s4.i.statusCode)]
                 IN flushWriteHeader(s5)
            ELSE [s3 EXCEPT !.i.wroteHeader = TRUE]

\* Mutant: the status is not flushed before the bytes are written through.
WriteNoFlush(s0, b, hv, wv) ==
    LET s == Called(s0, "i.Write", 0, b, "handler")
    IN
    IF IsInterrupted(s) THEN [s EXCEPT !.n = 0, !.err = FALSE]
    ELSE LET s1 == IF ~s.i.wroteHeader THEN WriteHeader(s, StatusOK, hv, "mw") ELSE s
         IN IF s1.tx.inspect
            THEN LET s2 == WriteResponseBody(s1, b, wv)
                 IN IF s2.it # NoIt
                    THEN LET s3 == HeaderSet(cleanHeaders(s2), "Content-Length", "0")
                             s4 == overrideWriteHeader(s3,
                                     obtainStatusCodeFromInterruptionOrDefault(s2.it, s3.i.statusCode))
                         IN [flushWriteHeader(s4) EXCEPT !.n = 0, !.err = FALSE]
                    ELSE [s2 EXCEPT !.i.size = @ + s2.n, !.err = FALSE]
            ELSE [s1 EXCEPT !.log = Append(@, Ev("w.Write", 0, b, s1.hdr, "mw")),
                            !.i.size = @ + Len(b),
                            !.n = Len(b), !.err = FALSE]

Write(s0, b, hv, wv) ==
    LET s == Called(s0, "i.Write", 0, b, "handler")
    IN
    IF IsInterrupted(s) THEN [s EXCEPT !.n = 0, !.err = FALSE]
    ELSE LET s1 == IF ~s.i.wroteHeader THEN WriteHeader(s, StatusOK, hv, "mw") ELSE s
         IN IF s1.tx.inspect
            THEN LET s2 == WriteResponseBody(s1, b, wv)
                 IN IF s2.it # NoIt
                    THEN LET s3 == HeaderSet(cleanHeaders(s2), "Content-Length", "0")
                             s4 == overrideWriteHeader(s3,
                                     obtainStatusCodeFromInterruptionOrDefault(s2.it, s3.i.statusCode))
                         IN [flushWriteHeader(s4) EXCEPT !.n = 0, !.err = FALSE]
                    ELSE [s2 EXCEPT !.i.size = @ + s2.n, !.err = FALSE]
            ELSE LET s2 == flushWriteHeader(s1)
                 IN [s2 EXCEPT !.log = Append(@, Ev("w.Write", 0, b, s2.hdr, "mw")),
                               !.i.size = @ + Len(b),
                               !.n = Len(b), !.err = FALSE]

\* io.WriteString(onlyWrite{w}, s): onlyWrite has no WriteString, so the
\* string goes through Write.
WriteString(s, str, hv, wv) == Write(s, str, hv, wv)

\* io.CopyBuffer(onlyWrite{w}, src, buf): one Write per read of the source,
\* stopped by a short write.
RECURSIVE CopyBuffer(_, _, _, _)
CopyBuffer(s, src, hv, wvs) ==
    IF src = <<>> THEN s
    ELSE LET s1 == Write(s, Head(src), hv, Head(wvs))
         IN IF s1.n # Len(Head(src)) THEN [s1 EXCEPT !.err = TRUE]
            ELSE CopyBuffer(s1, Tail(src), hv, Tail(wvs))

ReadFrom(s, src, hv, wvs) == CopyBuffer(s, src, hv, wvs)

FlushError(s0, hv) ==
    LET s == Called(s0, "i.FlushError", 0, <<>>, "handler")
    IN IF ~s.i.wroteHeader THEN WriteHeader(s, StatusOK, hv, "mw") ELSE s

processResponse(s, pv) ==
    IF IsInterrupted(s) THEN [s EXCEPT !.err = FALSE]
    ELSE IF s.tx.inspect
    THEN LET s1 == ProcessResponseBody(s, pv)
         IN IF s1.err
            THEN [flushWriteHeader(overrideWriteHeader(s1, StatusInternalServerError))
                    EXCEPT !.err = TRUE]
            ELSE IF s1.it # NoIt
            THEN LET s2 == HeaderSet(cleanHeaders(s1), "Content-Length", "0")
                     s3 == overrideWriteHeader(s2,
                             obtainStatusCodeFromInterruptionOrDefault(s1.it, s2.i.statusCode))
                 IN [flushWriteHeader(s3) EXCEPT !.err = FALSE]
            ELSE LET s2 == ResponseBodyReader(s1, pv)
                 IN IF s2.err
                    THEN [flushWriteHeader(overrideWriteHeader(s2, StatusInternalServerError))
                            EXCEPT !.err = TRUE]
                    ELSE LET s3 == flushWriteHeader(s2)
                         IN IF s3.tx.respBuf = <<>> THEN [s3 EXCEPT !.err = FALSE]
                            ELSE [s3 EXCEPT !.log = Append(@, Ev("w.Write", 0, s3.tx.respBuf, s3.hdr, "mw")),
                                            !.err = pv.copyErr]
    ELSE [flushWriteHeader(s) EXCEPT !.err = FALSE]

\* processRequest: the engine's answers rq decide how far it gets.  It
\* returns the interruption in it and the failure in err.
TxCall(s, op, it) == [s EXCEPT !.log = Append(@, TxEv(op, 0, <<>>, it))]

\* tx.AddRequestHeader(k, v)
AddRequestHeader(s, k, v) ==
    [s EXCEPT !.log = Append(@, [TxEv("tx.AddRequestHeader", 0, <<>>, NoIt)
                                   EXCEPT !.h = k :> v])]

RECURSIVE AddRequestHeaders(_, _)
AddRequestHeaders(s, hs) ==
    IF hs = <<>> THEN s
    ELSE AddRequestHeaders(AddRequestHeader(s, Head(hs), "v"), Tail(hs))

\* tx.ReadRequestBodyFrom(req.Body): the engine takes from the stream what
\* its limit still allows and buffers it.
ReadRequestBodyFrom(s, it) ==
    LET rest == s.req.Body.rest
        room == s.tx.reqLimit - Len(s.tx.reqBuf)
        k == IF Len(rest) < room THEN Len(rest) ELSE room
    IN [s EXCEPT !.tx.reqBuf = @ \o SubSeq(rest, 1, k),
                 !.req.Body.rest = SubSeq(rest, k + 1, Len(rest)),
                 !.log = Append(@, TxEv("tx.ReadRequestBodyFrom", 0,
                                        SubSeq(rest, 1, k), it))]

\* Mutant: the request body is replaced by the buffered part alone.
MultiReaderBufferOnly(rbr, body) ==
    [kind |-> "multi", buf |-> rbr, rest |-> <<>>]

\* io.MultiReader(rbr, req.Body), which replaces req.Body.
MultiReader(rbr, body) ==
    [kind |-> "multi", buf |-> rbr, rest |-> body.rest]

\* Mutant: the request-header phase runs before the Host header is added.
processRequestHostLate(s, rq) ==
    LET s0 == TxCall(AddRequestHeaders(TxCall(TxCall(s, "tx.ProcessConnection", NoIt),
                                              "tx.ProcessURI", NoIt),
                                       s.req.Header),
                     "tx.ProcessRequestHeaders", rq.hdrIt)
        s1 == IF s.req.Host # ""
              THEN TxCall(AddRequestHeader(s0, "Host", s.req.Host),
                          "tx.SetServerName", NoIt)
              ELSE s0
    IN [s1 EXCEPT !.tx.interruption = rq.hdrIt, !.it = rq.hdrIt, !.err = FALSE]

processRequest(s, rq) ==
    LET sa == AddRequestHeaders(TxCall(TxCall(s, "tx.ProcessConnection", NoIt),
                                       "tx.ProcessURI", NoIt),
                                s.req.Header)
        sb == IF s.req.Host # ""
              THEN TxCall(AddRequestHeader(sa, "Host", s.req.Host),
                          "tx.SetServerName", NoIt)
              ELSE sa
        sc == IF s.req.TransferEncoding # <<>>
              THEN AddRequestHeader(sb, "Transfer-Encoding", s.req.TransferEncoding[1])
              ELSE sb
        s1 == TxCall(sc, "tx.ProcessRequestHeaders", rq.hdrIt)
    IN IF rq.hdrIt # NoIt
       THEN [s1 EXCEPT !.tx.interruption = rq.hdrIt, !.it = rq.hdrIt, !.err = FALSE]
       ELSE LET read == s.tx.reqAccess /\ s.req.Body.kind \notin {"nil", "NoBody"}
                s2 == IF read
                      THEN ReadRequestBodyFrom(s1, IF rq.readErr THEN NoIt ELSE rq.readIt)
                      ELSE s1
            IN IF read /\ rq.readErr
               THEN [s2 EXCEPT !.it = NoIt, !.err = TRUE]
               ELSE IF read /\ rq.readIt # NoIt
               THEN [s2 EXCEPT !.tx.interruption = rq.readIt, !.it = rq.readIt, !.err = FALSE]
               ELSE LET s3 == IF read THEN TxCall(s2, "tx.RequestBodyReader", NoIt) ELSE s2
                        s4 == IF read
                              THEN [s3 EXCEPT !.req.Body = MultiReader(s3.tx.reqBuf, @)]
                              ELSE s3
                    IN IF read /\ rq.readerErr
                       THEN [s3 EXCEPT !.it = NoIt, !.err = TRUE]
                       ELSE IF rq.bodyErr
                       THEN [TxCall(s4, "tx.ProcessRequestBody", NoIt)
                               EXCEPT !.it = NoIt, !.err = TRUE]
                       ELSE [TxCall(s4, "tx.ProcessRequestBody", rq.bodyIt)
                               EXCEPT !.tx.interruption = rq.bodyIt,
                                      !.it = rq.bodyIt, !.err = FALSE]

----------------------------------------------------------------------------
\* The answers the engine may give.
Hvs == [it : ItOrNil, inspect : BOOLEAN]
Wvs == {[it |-> x, n |-> 0] : x \in Its}
         \cup {[it |-> NoIt, n |-> 0], [it |-> NoIt, n |-> 2]}
Pvs == {[it |-> x, err |-> FALSE, readerErr |-> FALSE, copyErr |-> FALSE] : x \in ItOrNil}
         \cup {[it |-> NoIt, err |-> TRUE, readerErr |-> FALSE, copyErr |-> FALSE],
               [it |-> NoIt, err |-> FALSE, readerErr |-> TRUE, copyErr |-> FALSE],
               [it |-> NoIt, err |-> FALSE, readerErr |-> FALSE, copyErr |-> TRUE]}
Rqs == [hdrIt : ItOrNil, readIt : ItOrNil, readErr : BOOLEAN,
        readerErr : BOOLEAN, bodyIt : ItOrNil, bodyErr : BOOLEAN]

\* A new request arrives: what an interceptor holds of the request served
\* until now belongs to an earlier request.
Old(v) == IF v = "cur" THEN "old" ELSE v
Aged(x) == [x EXCEPT !.w = Old(@), !.tx = Old(@), !.proto = Old(@)]

\* The answers that can matter to a call in state s: the response-header
\* phase is evaluated once, and an interrupted transaction is not asked.
HvsFor(s) ==
    IF s.i.wroteHeader \/ s.tx.respHeadersDone \/ IsInterrupted(s)
    THEN {[it |-> NoIt, inspect |-> FALSE]} ELSE Hvs
WvsFor(s) ==
    IF IsInterrupted(s) THEN {[it |-> NoIt, n |-> 0]} ELSE Wvs

----------------------------------------------------------------------------
\* WAF.Intercept, step by step.

Init ==
    /\ pc = "idle" /\ ops = 0 /\ exit = ""
    /\ tx = NewTX(TRUE, FALSE)
    /\ i = ZeroInterceptor
    /\ pool = {}
    /\ hdr = NoHdr
    /\ log = <<>>
    /\ req \in Reqs

\* A request arrives: tx := newTX(req) and the deferred finalisation is set up.
Begin ==
    /\ pc = "idle"
    /\ \E off \in BOOLEAN, inspect \in BOOLEAN, access \in BOOLEAN, limit \in Limits :
         /\ off => ~inspect /\ ~access
         /\ tx' = [NewTX(off, inspect) EXCEPT !.reqAccess = access, !.reqLimit = limit]
    /\ req' \in Reqs
    /\ ops' = 0 /\ exit' = "" /\ hdr' = NoHdr /\ log' = <<>>
    /\ i' = Aged(i) /\ pool' = {Aged(x) : x \in pool}
    /\ pc' = "engine"

\* Mutant: the early return for a disabled rule engine is missing.
RuleEngineOffWraps ==
    /\ pc = "engine" /\ tx.off
    /\ pc' = "acquire"
    /\ UNCHANGED <<req, ops, exit, tx, i, pool, hdr, log>>

\* tx.IsRuleEngineOff(): next(c) with the original context.
RuleEngineOff ==
    /\ pc = "engine" /\ tx.off
    /\ log' = Append(log, Ev("next", 0, <<>>, hdr, "c"))
    /\ pc' = "direct"
    /\ UNCHANGED <<req, ops, exit, tx, i, pool, hdr>>

\* The handler, given the original writer, calls it directly.
DirectWriteHeader ==
    /\ pc = "direct" /\ ops < MaxOps
    /\ \E st \in HandlerStatus :
         log' = Append(log, Ev("w.WriteHeader", st, <<>>, hdr, "handler"))
    /\ ops' = ops + 1
    /\ UNCHANGED <<req, pc, exit, tx, i, pool, hdr>>

DirectWrite ==
    /\ pc = "direct" /\ ops < MaxOps
    /\ \E b \in Chunks :
         log' = Append(log, Ev("w.Write", 0, b, hdr, "handler"))
    /\ ops' = ops + 1
    /\ UNCHANGED <<req, pc, exit, tx, i, pool, hdr>>

DirectSetHeader ==
    /\ pc = "direct" /\ ops < MaxOps
    /\ \E kv \in HandlerHeaders : hdr' = [hdr EXCEPT ![kv[1]] = kv[2]]
    /\ ops' = ops + 1
    /\ UNCHANGED <<req, pc, exit, tx, i, pool, log>>

DirectReturn ==
    /\ pc = "direct"
    /\ pc' = "finalize" /\ exit' = "off"
    /\ UNCHANGED <<req, ops, tx, i, pool, hdr, log>>

DirectPanic ==
    /\ pc = "direct"
    /\ pc' = "finalize" /\ exit' = "offpanic"
    /\ UNCHANGED <<req, ops, tx, i, pool, hdr, log>>

\* Mutant: a failure of processRequest is logged and the request is served.
RequestServedOnFailure ==
    /\ pc = "engine" /\ ~tx.off
    /\ \E rq \in Rqs :
         LET r == processRequest(St, rq)
         IN /\ tx' = r.tx /\ req' = r.req
            /\ IF r.it # NoIt
               THEN /\ log' = Append(r.log,
                           Ev("w.WriteHeader",
                              obtainStatusCodeFromInterruptionOrDefault(r.it, StatusOK),
                              <<>>, hdr, "mw"))
                    /\ pc' = "finalize" /\ exit' = "verdict"
               ELSE /\ log' = r.log
                    /\ pc' = "acquire"
                    /\ exit' = IF r.err THEN "reqfail" ELSE exit
    /\ UNCHANGED <<ops, i, pool, hdr>>

\* processRequest and the two early returns that follow it.
Request ==
    /\ pc = "engine" /\ ~tx.off
    /\ \E rq \in Rqs :
         LET r == processRequest(St, rq)
         IN /\ tx' = r.tx /\ req' = r.req
            /\ IF r.err
               THEN /\ log' = r.log
                    /\ pc' = "finalize" /\ exit' = "reqfail"
               ELSE IF r.it # NoIt
               THEN /\ log' = Append(r.log,
                           Ev("w.WriteHeader",
                              obtainStatusCodeFromInterruptionOrDefault(r.it, StatusOK),
                              <<>>, hdr, "mw"))
                    /\ pc' = "finalize" /\ exit' = "verdict"
               ELSE /\ log' = r.log
                    /\ pc' = "acquire" /\ exit' = exit
    /\ UNCHANGED <<ops, i, pool, hdr>>

\* p.Get(): the pool hands out the interceptor it holds or, when it holds
\* none any more, a new one.
Get ==
    /\ pc = "acquire"
    /\ \E x \in pool \cup {ZeroInterceptor} : i' = x
    /\ pool' = {}
    /\ pc' = "reset"
    /\ UNCHANGED <<req, ops, exit, tx, hdr, log>>

\* interceptor.reset(tx, c.Writer(), req.Proto), CloneWith, next(cc).
Reset ==
    /\ pc = "reset"
    /\ i' = reset(i, "cur", "cur", "cur")
    /\ log' = Append(log, Ev("next", 0, <<>>, hdr, "cc"))
    /\ pc' = "handler"
    /\ UNCHANGED <<req, ops, exit, tx, pool, hdr>>

\* The result of an interceptor method becomes the new state.
Becomes(r) ==
    /\ i' = r.i /\ tx' = r.tx /\ hdr' = r.hdr /\ log' = r.log

HWriteHeader ==
    /\ pc = "handler" /\ ops < MaxOps
    /\ \E st \in HandlerStatus, hv \in HvsFor(St) : Becomes(WriteHeader(St, st, hv, "handler"))
    /\ ops' = ops + 1
    /\ UNCHANGED <<req, pc, exit, pool>>

HWrite ==
    /\ pc = "handler" /\ ops < MaxOps
    /\ \E b \in Chunks, hv \in HvsFor(St), wv \in WvsFor(St) : Becomes(Write(St, b, hv, wv))
    /\ ops' = ops + 1
    /\ UNCHANGED <<req, pc, exit, pool>>

HWriteString ==
    /\ pc = "handler" /\ ops < MaxOps
    /\ \E b \in Chunks, hv \in HvsFor(St), wv \in WvsFor(St) : Becomes(WriteString(St, b, hv, wv))
    /\ ops' = ops + 1
    /\ UNCHANGED <<req, pc, exit, pool>>

HReadFrom ==
    /\ pc = "handler" /\ ops < MaxOps
    /\ \E src \in Sources, hv \in HvsFor(St) :
         \E wvs \in [1..Len(src) -> WvsFor(St)] : Becomes(ReadFrom(St, src, hv, wvs))
    /\ ops' = ops + 1
    /\ UNCHANGED <<req, pc, exit, pool>>

HFlushError ==
    /\ pc = "handler" /\ ops < MaxOps
    /\ \E hv \in HvsFor(St) : Becomes(FlushError(St, hv))
    /\ ops' = ops + 1
    /\ UNCHANGED <<req, pc, exit, pool>>

\* The handler changes the header map it got from Header().
HSetHeader ==
    /\ pc = "handler" /\ ops < MaxOps
    /\ \E kv \in HandlerHeaders : hdr' = [hdr EXCEPT ![kv[1]] = kv[2]]
    /\ ops' = ops + 1
    /\ UNCHANGED <<req, pc, exit, tx, i, pool, log>>

HReturn ==
    /\ pc = "handler"
    /\ pc' = "response"
    /\ UNCHANGED <<req, ops, exit, tx, i, pool, hdr, log>>

\* next(cc) panics: processResponse is skipped, the deferred calls run.
HPanic ==
    /\ pc = "handler"
    /\ pc' = "release" /\ exit' = "panic"
    /\ UNCHANGED <<req, ops, tx, i, pool, hdr, log>>

Response ==
    /\ pc = "response"
    /\ \E pv \in Pvs :
         LET r == processResponse(St, pv)
         IN /\ Becomes(r)
            /\ exit' = IF r.err THEN "respfail" ELSE "normal"
    /\ pc' = "release"
    /\ UNCHANGED <<req, ops, pool>>

\* Mutant: the interceptor is not put back.
ReleaseDrops ==
    /\ pc = "release"
    /\ pool' = pool
    /\ pc' = "finalize"
    /\ UNCHANGED <<req, ops, exit, tx, i, hdr, log>>

\* Deferred: cc.Close() and p.Put(interceptor).
Release ==
    /\ pc = "release"
    /\ pool' = pool \cup {i}
    /\ pc' = "finalize"
    /\ UNCHANGED <<req, ops, exit, tx, i, hdr, log>>

\* Mutant: finalisation is not deferred, so a panic of the handler skips it.
FinalizeUnlessPanic ==
    /\ pc = "finalize"
    /\ log' = IF exit \in {"panic", "offpanic"} THEN log
              ELSE log \o <<TxEv("tx.ProcessLogging", 0, <<>>, NoIt),
                            TxEv("tx.Close", 0, <<>>, NoIt)>>
    /\ pc' = "idle"
    /\ UNCHANGED <<req, ops, exit, tx, i, pool, hdr>>

\* Deferred: tx.ProcessLogging() and tx.Close().
Finalize ==
    /\ pc = "finalize"
    /\ log' = log \o <<TxEv("tx.ProcessLogging", 0, <<>>, NoIt),
                       TxEv("tx.Close", 0, <<>>, NoIt)>>
    /\ pc' = "idle"
    /\ UNCHANGED <<req, ops, exit, tx, i, pool, hdr>>

Next ==
    \/ Begin \/ RuleEngineOff
    \/ DirectWriteHeader \/ DirectWrite \/ DirectSetHeader
    \/ DirectReturn \/ DirectPanic
    \/ Request \/ Get \/ Reset
    \/ HWriteHeader \/ HWrite \/ HWriteString \/ HReadFrom \/ HFlushError
    \/ HSetHeader \/ HReturn \/ HPanic
    \/ Response \/ Release \/ Finalize

Spec == Init /\ [][Next]_vars

----------------------------------------------------------------------------
\* Reading the trace.

Idx(op) == {k \in DOMAIN log : log[k].op = op}
Count(op) == Cardinality(Idx(op))
Calls(op) == SelectSeq(log, LAMBDA e : e.op = op)
Bodies(op) == [k \in 1..Len(Calls(op)) |-> Calls(op)[k].b]

\* Intercept has returned (or unwound) for the request in the trace.
Returned == pc = "idle" /\ exit # ""

\* The calls on the transaction that returned an interruption.
Verdicts == {k \in DOMAIN log : log[k].it # NoIt}
FirstVerdict == CHOOSE k \in Verdicts : \A j \in Verdicts : k <= j

\* The status a "deny" interruption asks for.
DenyStatus(it) == IF it.status = 0 THEN 403 ELSE it.status

----------------------------------------------------------------------------
\* C1: with the rule engine on, when Intercept returns the underlying writer
\* has received WriteHeader exactly once, after the response-header phase
\* was first evaluated and after the response-body phase.
C1_StatusExactlyOnce ==
    (Returned /\ exit \in {"verdict", "reqfail", "normal", "respfail"}) =>
        /\ Count("w.WriteHeader") = 1
        /\ \A k \in Idx("w.WriteHeader") :
             /\ \A j \in Idx("tx.ProcessResponseBody") : j < k
             /\ Idx("tx.ProcessResponseHeaders") # {} =>
                  \E j \in Idx("tx.ProcessResponseHeaders") : j < k

\* C2: after a call on the transaction has returned an interruption, no
\* body byte is passed to the underlying writer.
C2_NoBodyAfterVerdict ==
    \A j, k \in DOMAIN log :
        (j < k /\ log[j].it # NoIt /\ log[k].op = "w.Write") => log[k].b = <<>>

\* C3: the interceptor never clears the headers or sets Content-Length
\* after it has sent the status to the underlying writer.
C3_HeaderMutationsBeforeFlush ==
    \A j, k \in DOMAIN log :
        (j < k /\ log[j].op = "w.WriteHeader" /\ log[j].by = "mw") =>
            log[k].op \notin {"w.Header.Del", "w.Header.Set"}

\* C4: on every exit path of Intercept, ProcessLogging is called exactly
\* once, then Close exactly once, and nothing is called on the transaction
\* after ProcessLogging but Close; neither is called before Intercept leaves.
C4_FinalizedOnce ==
    /\ pc # "idle" => Count("tx.ProcessLogging") = 0 /\ Count("tx.Close") = 0
    /\ Returned =>
         /\ exit \in {"off", "offpanic", "verdict", "reqfail", "normal",
                      "respfail", "panic"}
         /\ Count("tx.ProcessLogging") = 1 /\ Count("tx.Close") = 1
         /\ Len(log) >= 2
         /\ log[Len(log) - 1].op = "tx.ProcessLogging"
         /\ log[Len(log)].op = "tx.Close"

C4_Witness ==
    /\ Returned /\ exit = "panic"
    /\ Count("i.Write") > 0
    /\ Count("tx.ProcessLogging") = 1 /\ Count("tx.Close") = 1

\* C5: when processRequest returns a "deny" interruption, the handler is
\* never invoked, the underlying writer receives WriteHeader exactly once,
\* with the interruption's status or 403 when that is zero, and no Write.
C5_RequestDeny ==
    (exit = "verdict" /\ tx.interruption.action = "deny") =>
        /\ Count("next") = 0
        /\ Count("w.WriteHeader") = 1
        /\ \A k \in Idx("w.WriteHeader") : log[k].a = DenyStatus(tx.interruption)
        /\ Count("w.Write") = 0
        /\ \A k \in DOMAIN log : log[k].by # "handler"

C5_Witness ==
    /\ Returned /\ exit = "verdict"
    /\ tx.interruption = [action |-> "deny", status |-> 0]
    /\ \E k \in Idx("w.WriteHeader") : log[k].a = 403

\* C6: when the first interruption of the response is a "deny" for the
\* response body (from a buffered Write or from ProcessResponseBody), the
\* underlying writer receives the status once, after the verdict, with the
\* resolved status and Content-Length: 0 as the only header, and it
\* receives no Write during the whole request.
C6_BodyDeny ==
    (/\ Verdicts # {}
     /\ log[FirstVerdict].op \in {"tx.WriteResponseBody", "tx.ProcessResponseBody"}
     /\ log[FirstVerdict].it.action = "deny") =>
        /\ Count("w.WriteHeader") = 1
        /\ \A k \in Idx("w.WriteHeader") :
             /\ k > FirstVerdict
             /\ log[k].a = DenyStatus(log[FirstVerdict].it)
             /\ log[k].h = [NoHdr EXCEPT !["Content-Length"] = "0"]
        /\ Count("w.Write") = 0

C6_Witness ==
    /\ Returned
    /\ Verdicts # {}
    /\ log[FirstVerdict].op = "tx.ProcessResponseBody"
    /\ log[FirstVerdict].it.action = "deny"
    /\ tx.respBuf # <<>>
    /\ \E k \in Idx("i.Write") : log[k].h["Content-Type"] # ""
    /\ Count("w.WriteHeader") = 1

\* C7: when the handler calls WriteHeader(A) and then WriteHeader(B), and
\* no phase yields a verdict or fails, the recorded status stays A, the
\* underlying writer receives no status but A, at most once, and exactly
\* once when Intercept has returned.
C7_FirstHeaderWins ==
    (/\ Verdicts = {}
     /\ exit # "respfail"
     /\ Len(Calls("i.WriteHeader")) >= 2
     /\ Calls("i.WriteHeader")[1].by = "handler"
     /\ Calls("i.WriteHeader")[2].by = "handler") =>
        /\ Status(i) = Calls("i.WriteHeader")[1].a
        /\ \A k \in Idx("w.WriteHeader") : log[k].a = Calls("i.WriteHeader")[1].a
        /\ Count("w.WriteHeader") <= 1
        /\ (Returned /\ exit = "normal") => Count("w.WriteHeader") = 1

C7_Witness ==
    /\ Returned /\ exit = "normal"
    /\ Verdicts = {}
    /\ Len(Calls("i.WriteHeader")) = 2
    /\ Calls("i.WriteHeader")[1].by = "handler"
    /\ Calls("i.WriteHeader")[2].by = "handler"
    /\ Calls("i.WriteHeader")[1].a # Calls("i.WriteHeader")[2].a
    /\ Count("w.WriteHeader") = 1

\* C8: when the response body is not inspected and no verdict occurs, the
\* underlying writer receives exactly the chunks given to Write, in order,
\* and the status exactly once, before the first chunk.
C8_PassThrough ==
    (~tx.off /\ ~tx.inspect /\ Verdicts = {}) =>
        /\ Bodies("w.Write") = Bodies("i.Write")
        /\ Idx("w.Write") # {} =>
             /\ Count("w.WriteHeader") = 1
             /\ \A h \in Idx("w.WriteHeader"), k \in Idx("w.Write") : h < k

C8_Witness ==
    /\ Returned /\ exit = "normal"
    /\ ~tx.off /\ ~tx.inspect /\ Verdicts = {}
    /\ Bodies("i.Write") = <<<<2, 3>>, <<1>>>>
    /\ Bodies("w.Write") = <<<<2, 3>>, <<1>>>>

\* C9: with the rule engine off, Intercept calls the handler once with the
\* original context, evaluates no phase but the logging, makes no call on
\* the writer or its header map, so the writer receives the handler's calls
\* only, and no interceptor leaves the pool.
C9_OffTrace ==
    (tx.off /\ pc # "idle") =>
        /\ pc # "engine" => Count("next") = 1
        /\ \A k \in DOMAIN log :
             /\ log[k].op = "next" => log[k].by = "c"
             /\ log[k].op # "next" => log[k].by = "handler"
             /\ log[k].op \in {"next", "w.WriteHeader", "w.Write"}

C9_OffPassThrough ==
    /\ [](C9_OffTrace)
    /\ [](Returned /\ exit \in {"off", "offpanic"} =>
            /\ Count("next") = 1
            /\ \A k \in DOMAIN log :
                 log[k].op \in {"next", "w.WriteHeader", "w.Write",
                                "tx.ProcessLogging", "tx.Close"})
    /\ [][(tx.off /\ pc # "idle") => (pool' = pool /\ i' = i)]_vars

C9_Witness ==
    /\ Returned /\ exit = "off"
    /\ Count("w.WriteHeader") = 1 /\ Count("w.Write") = 1
    /\ Len(log) = 5

\* C10: an interceptor reacquired from the pool and reset is in the fresh
\* initial state whatever the request before did with it: header not
\* recorded, status not flushed, size the not-written sentinel, status 200,
\* bound to the transaction, writer and protocol of the new request.
C10_ResetIsFresh ==
    (pc = "handler" /\ log[Len(log)].op = "next") =>
        /\ i = [w |-> "cur", tx |-> "cur", proto |-> "cur", statusCode |-> 200,
                size |-> -1, isWriteHeaderFlush |-> FALSE, wroteHeader |-> FALSE]
        /\ ~Written(i) /\ Size(i) = 0 /\ Status(i) = 200

\* The pool has handed out an interceptor the request before has written
\* through, and reset acts on it next.
C10_Witness ==
    /\ pc = "reset"
    /\ i.w = "old" /\ i.tx = "old" /\ i.proto = "old"
    /\ i.wroteHeader /\ i.isWriteHeaderFlush
    /\ i.size > 0 /\ i.statusCode = 404

----------------------------------------------------------------------------
\* The status resolution on its own: w.statusCode =
\* obtainStatusCodeFromInterruptionOrDefault(it, w.statusCode) for every
\* interruption it and every recorded status.  The trace holds the call that
\* returned it, with the status recorded when it was made.
ResolveIts == [action : {"deny", "redirect", "drop", "pass"},
               status : {0, 302, 403, 404, 503}]
ResolveFallbacks == {200, 201, 403, 404, 500}

ResolveInit ==
    /\ pc = "resolve" /\ ops = 0 /\ exit = ""
    /\ pool = {} /\ hdr = NoHdr /\ req \in Reqs
    /\ \E it \in ResolveIts, st \in ResolveFallbacks :
         /\ tx = [NewTX(FALSE, FALSE) EXCEPT !.respHeadersDone = TRUE,
                                             !.interruption = it]
         /\ i = [reset(ZeroInterceptor, "cur", "cur", "cur") EXCEPT
                    !.statusCode = st, !.size = 0]
         /\ log = <<TxEv("tx.ProcessResponseHeaders", st, <<>>, it)>>

Resolve ==
    /\ pc = "resolve"
    /\ i' = [i EXCEPT !.statusCode =
               obtainStatusCodeFromInterruptionOrDefault(tx.interruption, i.statusCode)]
    /\ pc' = "resolved"
    /\ UNCHANGED <<req, ops, exit, tx, pool, hdr, log>>

ResolveNext == Resolve

SpecResolve == ResolveInit /\ [][ResolveNext]_vars

\* C11: obtainStatusCodeFromInterruptionOrDefault(it, fallback) is 403 for
\* a "deny" with status 0, the interruption's status for a "deny" with
\* another status, and fallback for every other action, whatever status
\* the interruption carries.
C11_Resolve ==
    pc = "resolved" =>
        LET it == log[1].it
            fallback == log[1].a
        IN /\ (it.action = "deny" /\ it.status = 0) => Status(i) = 403
           /\ (it.action = "deny" /\ it.status # 0) => Status(i) = it.status
           /\ it.action # "deny" => Status(i) = fallback

C11_Witness ==
    /\ pc = "resolved"
    /\ log[1].it = [action |-> "redirect", status |-> 302]
    /\ log[1].a = 404
    /\ Status(i) = 404

----------------------------------------------------------------------------
\* The exit paths on which an interceptor was acquired.
Acquired == exit \in {"normal", "respfail", "panic"}

\* C12, as claimed: the interceptor is not in the pool while the
\* transaction it was bound to has not been finalized and closed.
C12_FinalizedBeforePooled ==
    (\E x \in pool : x.tx = "cur") =>
        Count("tx.ProcessLogging") = 1 /\ Count("tx.Close") = 1

\* C12, as the code has it: the deferred calls run in reverse order, so on
\* every exit path with an interceptor the interceptor is put back first,
\* while the transaction is neither finalized nor closed, and the
\* transaction is finalized and closed after that; when Intercept has
\* returned, both have happened.  While the handler and processResponse
\* run, the interceptor is not in the pool.
C12_PooledBeforeFinalized ==
    /\ pc \in {"reset", "handler", "response", "release"} =>
          /\ pool = {}
          /\ Count("tx.ProcessLogging") = 0 /\ Count("tx.Close") = 0
    /\ (Acquired /\ pc = "finalize") =>
          /\ i \in pool
          /\ Count("tx.ProcessLogging") = 0 /\ Count("tx.Close") = 0
    /\ (Acquired /\ pc = "idle") =>
          /\ i \in pool
          /\ Count("tx.ProcessLogging") = 1 /\ Count("tx.Close") = 1

C12_Witness ==
    /\ pc = "finalize" /\ exit = "respfail"
    /\ i \in pool /\ i.tx = "cur"

----------------------------------------------------------------------------
\* One run of Intercept with the rule engine on, over all requests and
\* body limits, whose handler reads the request body.

\* One Read on req.Body for at most n bytes: the io.MultiReader serves
\* the buffered bytes first and the stream once they are exhausted.
Read(body, n) ==
    LET from == IF body.buf # <<>> THEN body.buf ELSE body.rest
        k == IF Len(from) < n THEN Len(from) ELSE n
    IN [b |-> SubSeq(from, 1, k),
        body |-> IF body.buf # <<>>
                 THEN [body EXCEPT !.buf = SubSeq(from, k + 1, Len(from))]
                 ELSE [body EXCEPT !.rest = SubSeq(from, k + 1, Len(from))]]
ReadSizes == {1, 2}

BodyInit ==
    /\ pc = "engine" /\ ops = 0 /\ exit = ""
    /\ i = ZeroInterceptor /\ pool = {} /\ hdr = NoHdr /\ log = <<>>
    /\ req \in AllReqs
    /\ \E access \in BOOLEAN, limit \in AllLimits :
         tx = [NewTX(FALSE, FALSE) EXCEPT !.reqAccess = access, !.reqLimit = limit]

HReadBody ==
    /\ pc = "handler"
    /\ \E n \in ReadSizes :
         LET r == Read(req.Body, n)
         IN /\ r.b # <<>>
            /\ req' = [req EXCEPT !.Body = r.body]
            /\ log' = Append(log, Ev("req.Body.Read", 0, r.b, hdr, "handler"))
    /\ UNCHANGED <<pc, ops, exit, tx, i, pool, hdr>>

BodyNext ==
    \/ Request \/ Get \/ Reset
    \/ HReadBody \/ HReturn \/ HPanic
    \/ Response \/ Release \/ Finalize

SpecBody == BodyInit /\ [][BodyNext]_vars

Phases == {"tx.ProcessConnection", "tx.ProcessURI", "tx.ProcessRequestHeaders",
           "tx.ReadRequestBodyFrom", "tx.ProcessRequestBody"}
RequestCalls == Phases \cup {"tx.AddRequestHeader", "tx.SetServerName",
                             "tx.RequestBodyReader"}
Before(a, b) == \A j \in Idx(a), k \in Idx(b) : j < k
BodyPresent == req.Body.kind \notin {"nil", "NoBody"}
AddedHeaders == [k \in 1..Len(Calls("tx.AddRequestHeader")) |->
                    Calls("tx.AddRequestHeader")[k].h]
ExpectedHeaders ==
    [k \in 1..Len(req.Header) |-> req.Header[k] :> "v"]
      \o (IF req.Host # "" THEN <<"Host" :> req.Host>> ELSE <<>>)
      \o (IF req.TransferEncoding # <<>>
          THEN <<"Transfer-Encoding" :> req.TransferEncoding[1]>> ELSE <<>>)

\* C13: once processRequest has returned, the trace holds the connection
\* phase, the URI phase, the request headers (Host and Transfer-Encoding
\* included) and the request-header phase, in that order; then the read of
\* the request body, only for an accessible body that is present, and the
\* request-body phase; each phase at most once.  The first phase that
\* returns an interruption is the last call of processRequest, and its
\* interruption is the one Intercept answers.
C13_RequestPhases ==
    pc # "engine" =>
        /\ \A op \in Phases : Count(op) <= 1
        /\ Count("tx.ProcessConnection") = 1 /\ Count("tx.ProcessURI") = 1
        /\ Count("tx.ProcessRequestHeaders") = 1
        /\ Before("tx.ProcessConnection", "tx.ProcessURI")
        /\ Before("tx.ProcessURI", "tx.AddRequestHeader")
        /\ Before("tx.ProcessURI", "tx.ProcessRequestHeaders")
        /\ Before("tx.AddRequestHeader", "tx.ProcessRequestHeaders")
        /\ AddedHeaders = ExpectedHeaders
        /\ Before("tx.ProcessRequestHeaders", "tx.ReadRequestBodyFrom")
        /\ Before("tx.ProcessRequestHeaders", "tx.ProcessRequestBody")
        /\ Before("tx.ReadRequestBodyFrom", "tx.ProcessRequestBody")
        /\ Count("tx.ReadRequestBodyFrom") = 1 => tx.reqAccess /\ BodyPresent
        /\ (\A k \in Idx("tx.ProcessRequestHeaders") : log[k].it = NoIt)
              => (Count("tx.ReadRequestBodyFrom") = 1 <=> tx.reqAccess /\ BodyPresent)
        /\ ((\A k \in DOMAIN log : log[k].op \in Phases => log[k].it = NoIt)
            /\ exit # "reqfail") => Count("tx.ProcessRequestBody") = 1
        /\ \A k \in DOMAIN log :
              (log[k].op \in Phases /\ log[k].it # NoIt) =>
                  /\ \A j \in DOMAIN log : j > k => log[j].op \notin RequestCalls
                  /\ exit = "verdict" /\ tx.interruption = log[k].it
                  /\ Count("next") = 0

C13_Witness ==
    /\ Returned /\ exit = "verdict"
    /\ Len(req.Header) = 2 /\ req.Host = "h" /\ req.TransferEncoding # <<>>
    /\ Count("tx.ReadRequestBodyFrom") = 1
    /\ \E k \in Idx("tx.ProcessRequestBody") : log[k].it.action = "deny"

----------------------------------------------------------------------------
\* The step is a call of one of the methods ms of the interceptor.
CallOf(ms) == Len(log') > Len(log) /\ log'[Len(log) + 1].op \in ms
CountIn(l, op) == Cardinality({k \in DOMAIN l : l[k].op = op})
HeaderPhaseUntouched ==
    /\ CountIn(log', "tx.AddResponseHeader") = CountIn(log, "tx.AddResponseHeader")
    /\ CountIn(log', "tx.ProcessResponseHeaders") = CountIn(log, "tx.ProcessResponseHeaders")

\* C14, as claimed: a WriteHeader or FlushError on an interceptor whose
\* header is recorded or whose status is flushed changes nothing of the
\* interceptor, adds no response header to the transaction and does not
\* evaluate the response-header phase; neither does a Write.
C14_WriteHeaderIgnored ==
    [][(pc = "handler" /\ (i.wroteHeader \/ i.isWriteHeaderFlush)) =>
          /\ CallOf({"i.WriteHeader", "i.FlushError"}) =>
                i' = i /\ HeaderPhaseUntouched
          /\ CallOf({"i.Write"}) => HeaderPhaseUntouched]_vars

----------------------------------------------------------------------------
\* The interceptor i is the one of the request being served.
InUse == pc \in {"handler", "response", "release"}
            \/ (pc \in {"finalize", "idle"} /\ Acquired)
StatusSent(l) == {k \in DOMAIN l : l[k].op = "w.WriteHeader"}

\* C15: however often the status is flushed during a request, the
\* underlying writer gets WriteHeader once, when isWriteHeaderFlush goes
\* from false to true, with the status the interceptor holds at that
\* moment; the flag is set exactly when that call was made, and only
\* reset (on the interceptor taken from the pool) sets it back to false.
C15_FlushedFlag ==
    InUse => (/\ Count("w.WriteHeader") <= 1
              /\ i.isWriteHeaderFlush <=> Count("w.WriteHeader") = 1)
C15_FlushStep ==
    /\ (InUse /\ i.isWriteHeaderFlush) =>
          /\ pc' \notin {"engine", "reset"} => i'.isWriteHeaderFlush
          /\ pc' # "engine" => StatusSent(log') = StatusSent(log)
    /\ (InUse /\ ~i.isWriteHeaderFlush /\ i'.isWriteHeaderFlush) =>
          \E k \in StatusSent(log') :
              /\ k > Len(log) /\ StatusSent(log') = {k}
              /\ log'[k].a = i'.statusCode /\ log'[k].by = "mw"
    /\ (i.isWriteHeaderFlush /\ ~i'.isWriteHeaderFlush) => pc \in {"acquire", "reset"}
C15_FlushOnce == []C15_FlushedFlag /\ [][C15_FlushStep]_vars

C15_Witness ==
    /\ Returned /\ exit = "normal" /\ ~tx.inspect
    /\ Count("i.WriteHeader") = 2 /\ Count("i.Write") = 1
    /\ Count("w.WriteHeader") = 1 /\ i.isWriteHeaderFlush

----------------------------------------------------------------------------
RECURSIVE Flat(_)
Flat(ss) == IF ss = <<>> THEN <<>> ELSE Head(ss) \o Flat(Tail(ss))

\* The status the handler recorded: that of its first WriteHeader, 200
\* when the header was recorded for it or not at all.
Recorded ==
    IF Calls("i.WriteHeader") = <<>> THEN StatusOK ELSE Calls("i.WriteHeader")[1].a

\* C16, as claimed: while the handler writes a body that is inspected and
\* no interruption stands, the underlying writer gets neither a status nor
\* a byte; once processResponse has returned without interruption or
\* failure, it has got the recorded status once and then the bytes the
\* handler gave to Write, in their order.
C16_BufferedBodyDelivered ==
    /\ (pc = "handler" /\ tx.inspect /\ ~IsInterrupted(St)) =>
          Count("w.WriteHeader") = 0 /\ Count("w.Write") = 0
    /\ (pc \in {"release", "finalize", "idle"} /\ exit = "normal"
        /\ tx.inspect /\ ~IsInterrupted(St)) =>
          /\ Count("w.WriteHeader") = 1
          /\ \A k \in Idx("w.WriteHeader") : log[k].a = Recorded
          /\ Before("w.WriteHeader", "w.Write")
          /\ Flat(Bodies("w.Write")) = Flat(Bodies("i.Write"))

----------------------------------------------------------------------------
\* processResponse has returned an error before copying the buffered body:
\* tx.ProcessResponseBody or tx.ResponseBodyReader failed.
PhaseFailed ==
    /\ pc \in {"release", "finalize", "idle"} /\ exit = "respfail"
    /\ Count("w.Write") = 0

\* C17: when tx.ProcessResponseBody or tx.ResponseBodyReader fails, the
\* recorded status is overridden with 500 and flushed: the underlying
\* writer gets WriteHeader(500), once, and no other status and no byte;
\* processResponse returns the error to Intercept, and the transaction is
\* finalized and closed, once each, before Intercept returns.
C17_ResponseFailure ==
    PhaseFailed =>
        /\ Count("next") = 1 /\ Count("tx.ProcessResponseBody") = 1
        /\ Count("w.WriteHeader") = 1
        /\ \A k \in Idx("w.WriteHeader") :
              /\ log[k].a = StatusInternalServerError /\ log[k].by = "mw"
              /\ \A j \in Idx("tx.ProcessResponseBody") : j < k
        /\ Status(i) = StatusInternalServerError /\ i.isWriteHeaderFlush
        /\ pc = "idle" =>
              /\ Count("tx.ProcessLogging") = 1 /\ Count("tx.Close") = 1
              /\ log[Len(log) - 1].op = "tx.ProcessLogging"
              /\ log[Len(log)].op = "tx.Close"

C17_Witness ==
    /\ Returned /\ PhaseFailed
    /\ Count("tx.ResponseBodyReader") = 1
    /\ Recorded = 404 /\ Count("i.Write") = 1
    /\ \E k \in Idx("w.WriteHeader") : log[k].a = 500

----------------------------------------------------------------------------
\* C18: when processRequest returns a failure, Intercept leaves: the
\* handler is not invoked, no interceptor is taken from the pool, the
\* underlying writer gets no call at all, and the transaction is finalized
\* and closed, once each, before Intercept returns.
C18_NothingSent ==
    exit = "reqfail" =>
        /\ pc \in {"finalize", "idle"}
        /\ Count("next") = 0
        /\ \A k \in DOMAIN log : log[k].op \in RequestCalls \cup {"tx.ProcessLogging", "tx.Close"}
        /\ \A k \in DOMAIN log : log[k].it = NoIt
        /\ pc = "idle" =>
              /\ Count("tx.ProcessLogging") = 1 /\ Count("tx.Close") = 1
              /\ log[Len(log) - 1].op = "tx.ProcessLogging"
              /\ log[Len(log)].op = "tx.Close"
C18_NothingAcquired ==
    (exit' = "reqfail" /\ pc # "idle") => i' = i /\ pool' = pool
C18_RequestFailure == []C18_NothingSent /\ [][C18_NothingAcquired]_vars

C18_Witness ==
    /\ Returned /\ exit = "reqfail"
    /\ Count("tx.RequestBodyReader") = 1 /\ Count("tx.ProcessRequestBody") = 0
    /\ pool # {}

----------------------------------------------------------------------------
\* The request body as the handler gets it: what it has read, then what
\* req.Body still holds.
ReadSoFar(l) ==
    Flat([k \in 1..Len(SelectSeq(l, LAMBDA e : e.op = "req.Body.Read")) |->
            SelectSeq(l, LAMBDA e : e.op = "req.Body.Read")[k].b])
Whole(r, l) == ReadSoFar(l) \o r.Body.buf \o r.Body.rest

\* C19: for an accessible request body that is present, when processRequest
\* returns neither interruption nor failure, req.Body is the buffered
\* prefix (the first bytes of the body, as many as the limit allows)
\* followed by the bytes not taken from the stream, and what the handler
\* reads from it, read after read, with what is left to read, stays the
\* original body: no byte is lost, doubled or moved.
C19_BodyStep ==
    (tx.reqAccess /\ BodyPresent /\ exit' \notin {"verdict", "reqfail"}) =>
        /\ Whole(req', log') = Whole(req, log)
        /\ pc = "engine" =>
              /\ req'.Body.kind = "multi"
              /\ req'.Body.buf = tx'.reqBuf
              /\ req'.Body.buf \o req'.Body.rest = req.Body.rest
              /\ Len(req'.Body.buf) =
                    (IF Len(req.Body.rest) < tx.reqLimit
                     THEN Len(req.Body.rest) ELSE tx.reqLimit)
C19_BodyPreserved == [][C19_BodyStep]_vars

C19_Witness ==
    /\ pc = "handler" /\ tx.reqAccess /\ tx.reqLimit = 2
    /\ req.Body = [kind |-> "multi", buf |-> <<>>, rest |-> <<>>]
    /\ tx.reqBuf = <<1, 2>>
    /\ ReadSoFar(log) = <<1, 2, 3>>

----------------------------------------------------------------------------
\* C20: whenever the transaction is interrupted while an interceptor
\* serves the request, the interceptor has flushed its status: the
\* interruption came from WriteHeader, from Write or from processResponse,
\* and each of them flushes before it returns.
C20_InterruptedIsFlushed ==
    (InUse /\ IsInterrupted(St)) =>
        /\ i.isWriteHeaderFlush
        /\ Count("w.WriteHeader") = 1

C20_Witness ==
    /\ pc = "handler" /\ IsInterrupted(St) /\ i.isWriteHeaderFlush
    /\ \E k \in Idx("tx.WriteResponseBody") : log[k].it = tx.interruption

----------------------------------------------------------------------------
\* C21, as claimed: once the interceptor serving the request has flushed,
\* Status() is the status the underlying writer got with WriteHeader; no
\* later call of the handler and no step of processResponse changes it.
C21_StatusIsSent ==
    (InUse /\ i.isWriteHeaderFlush) =>
        \A k \in Idx("w.WriteHeader") : Status(i) = log[k].a

====
